---------------------------- MODULE Spec2Model ----------------------------
(***************************************************************************)
(* GlueBot: the reply-resolution pipeline of src/main.py.                  *)
(*                                                                         *)
(* A text (a Python str) is a sequence of one-character strings, so that   *)
(* strip(), lower(), substring tests and the [a-z0-9]+ tokenizer are       *)
(* computed character by character.  A JSON object is a record whose       *)
(* DOMAIN is the set of keys it holds.  A reply is a sequence of strings:  *)
(* the fixed replies are kept line by line, a knowledge answer or an LLM   *)
(* completion character by character.                                      *)
(***************************************************************************)
EXTENDS Integers, Sequences, FiniteSets, TLC

VARIABLES file, env, req, nreq, workers, s0, tracked, kb, kbctx

vars == <<file, env, req, nreq, workers, s0, tracked, kb, kbctx>>

(***************************************************************************)
(* Bounds of the model.                                                    *)
(***************************************************************************)
MaxRequests == 2
MaxKb == 32
MaxIncomplete == 1

(***************************************************************************)
(* Python str primitives.                                                  *)
(***************************************************************************)
None == <<"<None>">>

Whitespace == {" ", "\t", "\n", "\r"}

UpperAlpha == <<"A", "B", "C", "D", "E", "F", "G", "H", "I", "J", "K", "L", "M", "N", "O", "P", "Q", "R", "S", "T", "U", "V", "W", "X", "Y", "Z">>
LowerAlpha == <<"a", "b", "c", "d", "e", "f", "g", "h", "i", "j", "k", "l", "m", "n", "o", "p", "q", "r", "s", "t", "u", "v", "w", "x", "y", "z">>
Digits == <<"0", "1", "2", "3", "4", "5", "6", "7", "8", "9">>

Range(s) == {s[i] : i \in 1..Len(s)}

LowerMap ==
  [c \in Range(UpperAlpha) |->
     LowerAlpha[CHOOSE i \in 1..Len(UpperAlpha) : UpperAlpha[i] = c]]

LowerChar(c) == IF c \in DOMAIN LowerMap THEN LowerMap[c] ELSE c

\* str.lower()
lower(s) == [i \in 1..Len(s) |-> LowerChar(s[i])]

\* str.strip()
strip(s) ==
  LET keep == {i \in 1..Len(s) : s[i] \notin Whitespace}
  IN  IF keep = {} THEN <<>>
      ELSE LET lo == CHOOSE i \in keep : \A j \in keep : i <= j
               hi == CHOOSE i \in keep : \A j \in keep : j <= i
           IN  SubSeq(s, lo, hi)

\* sub in s
contains(s, sub) ==
  \E i \in 0..(Len(s) - Len(sub)) : SubSeq(s, i + 1, i + Len(sub)) = sub

Alnum == Range(LowerAlpha) \cup Range(Digits)

IsAlnum(c) == c \in Alnum

\* re.findall(r"[a-z0-9]+", s) from position i on: run is the run of
\* [a-z0-9] being read, found the set of the runs already closed
RECURSIVE findall_from(_, _, _, _)
findall_from(s, i, run, found) ==
  IF i > Len(s) THEN (IF run = <<>> THEN found ELSE found \cup {run})
  ELSE IF IsAlnum(s[i]) THEN findall_from(s, i + 1, Append(run, s[i]), found)
  ELSE findall_from(s, i + 1, <<>>, IF run = <<>> THEN found ELSE found \cup {run})

\* set(re.findall(r"[a-z0-9]+", s)): the maximal runs of [a-z0-9]
tokens(s) == findall_from(s, 1, <<>>, {})

\* sep.join(parts)
RECURSIVE join(_, _)
join(sep, parts) ==
  IF parts = <<>> THEN <<>>
  ELSE IF Len(parts) = 1 THEN parts[1]
  ELSE parts[1] \o sep \o join(sep, Tail(parts))

\* item.get(k1, item.get(k2, "")) on a JSON object
get2(item, k1, k2) ==
  IF k1 \in DOMAIN item THEN item[k1]
  ELSE IF k2 \in DOMAIN item THEN item[k2]
  ELSE <<>>

\* isinstance(item, dict): any other JSON value is kept as [scalar |-> ...]
isdict(item) == "scalar" \notin DOMAIN item

\* Python truthiness of an optional str: neither None nor empty
truthy(v) == v # None /\ v # <<>>

(***************************************************************************)
(* Program constants.  A backquote of the source's reply texts is written *)
(* as an apostrophe: SANY's lexer does not read a backquote in a string.   *)
(***************************************************************************)
KbSliceLimit == 30
RelatedLimit == 3

PleaseTypeReply == <<"Please type a message so I can help.">>

GreetingReply ==
  <<"Hi, I can help with Kubernetes and OpenStack operations. Try: 'pod stuck in termination', 'CrashLoopBackOff', or 'delete all available openstack volumes'.">>

ThanksReply == <<"You are welcome. Share the next issue when ready.">>

HelpReply ==
  <<"I can troubleshoot Kubernetes and OpenStack issues, and generate safe scripts. Include exact errors and I will provide step-by-step commands.">>

greetings ==
  {<<"h", "i">>, <<"h", "e", "l", "l", "o">>, <<"h", "e", "y">>, <<"y", "o">>, <<"g", "o", "o", "d", " ", "m", "o", "r", "n", "i", "n", "g">>, <<"g", "o", "o", "d", " ", "a", "f", "t", "e", "r", "n", "o", "o", "n">>,
   <<"g", "o", "o", "d", " ", "e", "v", "e", "n", "i", "n", "g">>}

thanks == {<<"t", "h", "a", "n", "k", "s">>, <<"t", "h", "a", "n", "k", " ", "y", "o", "u">>, <<"t", "h", "x">>}

helps == {<<"h", "e", "l", "p">>, <<"w", "h", "a", "t", " ", "c", "a", "n", " ", "y", "o", "u", " ", "d", "o">>, <<"w", "h", "a", "t", " ", "c", "a", "n", " ", "y", "o", "u", " ", "h", "e", "l", "p", " ", "w", "i", "t", "h">>}

incident_keywords ==
  {<<"p", "o", "d">>, <<"k", "u", "b", "e", "r", "n", "e", "t", "e", "s">>, <<"k", "8", "s">>, <<"p", "r", "o", "b", "e">>, <<"l", "i", "v", "e", "n", "e", "s", "s">>, <<"r", "e", "a", "d", "i", "n", "e", "s", "s">>,
   <<"c", "r", "a", "s", "h", "l", "o", "o", "p", "b", "a", "c", "k", "o", "f", "f">>, <<"i", "m", "a", "g", "e", "p", "u", "l", "l", "b", "a", "c", "k", "o", "f", "f">>, <<"e", "r", "r", "o", "r">>, <<"f", "a", "i", "l", "e", "d">>,
   <<"t", "i", "m", "e", "o", "u", "t">>, <<"t", "e", "r", "m", "i", "n", "a", "t", "i", "n", "g">>, <<"r", "e", "s", "t", "a", "r", "t">>, <<"o", "p", "e", "n", "s", "t", "a", "c", "k">>, <<"n", "o", "v", "a">>,
   <<"n", "e", "u", "t", "r", "o", "n">>, <<"c", "i", "n", "d", "e", "r">>, <<"g", "l", "a", "n", "c", "e">>, <<"k", "e", "y", "s", "t", "o", "n", "e">>, <<"v", "o", "l", "u", "m", "e">>,
   <<"i", "n", "s", "t", "a", "n", "c", "e">>, <<"s", "e", "r", "v", "e", "r">>}

ScriptHeader == "#!/usr/bin/env bash"

ScriptReply ==
  <<"Use this safe script (dry-run by default) to delete all OpenStack volumes in 'available' state:",
    "",
    "'''bash",
    ScriptHeader,
    "set -euo pipefail",
    "",
    "# Usage:",
    "#   ./delete_available_volumes.sh            # dry-run",
    "#   DRY_RUN=false ./delete_available_volumes.sh",
    "",
    "DRY_RUN=${DRY_RUN:-true}",
    "",
    "mapfile -t volumes < <(openstack volume list -f value -c ID -c Status | awk '$2==\"available\" {print $1}')",
    "",
    "if [ ${#volumes[@]} -eq 0 ]; then",
    "  echo \"No available volumes found.\"",
    "  exit 0",
    "fi",
    "",
    "echo \"Found ${#volumes[@]} available volumes\"",
    "for vol in \"${volumes[@]}\"; do",
    "  if [ \"$DRY_RUN\" = \"true\" ]; then",
    "    echo \"[DRY-RUN] openstack volume delete $vol\"",
    "  else",
    "    echo \"Deleting volume: $vol\"",
    "    openstack volume delete \"$vol\"",
    "  fi",
    "done",
    "'''",
    "",
    "Before deleting, confirm tenant/project scope and snapshots/backups.">>

UnresolvedNote == "Captured from unknown user issue. Fill answer later."

KbPlaceholder == <<"-", " ", "N", "o", " ", "c", "u", "r", "a", "t", "e", "d", " ", "K", "B", " ", "a", "n", "s", "w", "e", "r", "s", " ", "y", "e", "t", ".">>

PromptHead ==
  "You are GlueBot, a Kubernetes + OpenStack SRE assistant. Provide concise, actionable troubleshooting steps. For Kubernetes, include kubectl commands. For OpenStack, include openstack CLI commands. If user asks for scripts/automation, return a safe script with dry-run default and a short warning."

DefaultModel == <<"g", "p", "t", "-", "4", ".", "1", "-", "m", "i", "n", "i">>

(***************************************************************************)
(* The stages of the pipeline, as the pure functions of src/main.py.       *)
(***************************************************************************)
_smalltalk_reply(message) ==
  LET text == lower(strip(message))
  IN  IF text = <<>> THEN PleaseTypeReply
      ELSE IF text \in greetings THEN GreetingReply
      ELSE IF text \in thanks THEN ThanksReply
      ELSE IF text \in helps THEN HelpReply
      ELSE None

_is_incident_like(message) ==
  tokens(lower(message)) \cap incident_keywords # {}

\* Mutant: only the verb remove is recognized
_openstack_script_reply_remove(message) ==
  LET text == lower(message)
  IN  IF /\ contains(text, <<"o", "p", "e", "n", "s", "t", "a", "c", "k">>)
         /\ contains(text, <<"v", "o", "l", "u", "m", "e">>)
         /\ contains(text, <<"r", "e", "m", "o", "v", "e">>)
         /\ contains(text, <<"a", "v", "a", "i", "l", "a", "b", "l", "e">>)
        THEN ScriptReply
        ELSE None

_openstack_script_reply(message) ==
  LET text == lower(message)
  IN  IF /\ contains(text, <<"o", "p", "e", "n", "s", "t", "a", "c", "k">>)
         /\ contains(text, <<"v", "o", "l", "u", "m", "e">>)
         /\ (contains(text, <<"d", "e", "l", "e", "t", "e">>) \/ contains(text, <<"r", "e", "m", "o", "v", "e">>))
         /\ contains(text, <<"a", "v", "a", "i", "l", "a", "b", "l", "e">>)
        THEN ScriptReply
        ELSE None

\* The content of knowledge.json is [kind, data]: kind "missing" (no file or
\* an empty one), "malformed" (not JSON), "list", "dict" (data holds the one
\* object) or "scalar" (any other JSON value).
_load_knowledge(f) ==
  IF f.kind = "list" THEN SelectSeq(f.data, isdict)
  ELSE IF f.kind = "dict" THEN f.data
  ELSE <<>>

item_question(item) == strip(get2(item, "question", "q"))
item_answer(item) == strip(get2(item, "answer", "a"))

\* Mutant: a record without an answer is not skipped
lookup_skips_no_question(question, answer) == question = <<>>

\* if not (question and answer): continue
lookup_skips(question, answer) == ~(question # <<>> /\ answer # <<>>)

RECURSIVE find_from(_, _, _, _)
find_from(text, msg_tokens, knowledge, i) ==
  IF i > Len(knowledge) THEN None
  ELSE
    LET question == lower(item_question(knowledge[i]))
        answer == item_answer(knowledge[i])
        q_tokens == tokens(question)
    IN  IF lookup_skips(question, answer)
          THEN find_from(text, msg_tokens, knowledge, i + 1)
        ELSE IF contains(text, question) \/ contains(question, text)
          THEN answer
        ELSE IF q_tokens = {}
          THEN find_from(text, msg_tokens, knowledge, i + 1)
        ELSE IF 10 * Cardinality(msg_tokens \cap q_tokens) >= 6 * Cardinality(q_tokens)
          THEN answer
        ELSE find_from(text, msg_tokens, knowledge, i + 1)

_find_reply(message, knowledge) ==
  LET text == lower(strip(message))
  IN  IF text = <<>> THEN PleaseTypeReply
      ELSE find_from(text, tokens(text), knowledge, 1)

\* Mutant: only the record just appended is written
_save_knowledge_new(knowledge) ==
  [kind |-> "list", data |-> SubSeq(knowledge, Len(knowledge), Len(knowledge))]

\* _save_knowledge: json.dumps of the list, the whole file overwritten
_save_knowledge(knowledge) == [kind |-> "list", data |-> knowledge]

unresolved_record(question) ==
  [question |-> question, answer |-> <<>>, status |-> "unresolved",
   note |-> UnresolvedNote]

\* Mutant: the questions are compared in the case they were typed in
existing_questions_exact(knowledge) ==
  {item_question(knowledge[i]) :
     i \in {j \in 1..Len(knowledge) : isdict(knowledge[j])}}

existing_questions(knowledge) ==
  {lower(item_question(knowledge[i])) :
     i \in {j \in 1..Len(knowledge) : isdict(knowledge[j])}}

\* whether _track_unknown_issue appends (and saves)
track_appends(message, knowledge) ==
  LET question == strip(message)
  IN  question # <<>> /\ lower(question) \notin existing_questions(knowledge)

\* Mutant: the record is put in front of the list
_track_unknown_issue_front(message, knowledge) ==
  IF track_appends(message, knowledge)
    THEN <<unresolved_record(strip(message))>> \o knowledge
    ELSE knowledge

\* the list knowledge after _track_unknown_issue
_track_unknown_issue(message, knowledge) ==
  IF track_appends(message, knowledge)
    THEN Append(knowledge, unresolved_record(strip(message)))
    ELSE knowledge

(***************************************************************************)
(* The LLM delegate.                                                       *)
(***************************************************************************)
\* os.getenv(name, default) on the environment as load_dotenv left it
getenv(e, name, default) == IF name \in DOMAIN e THEN e[name] ELSE default

\* a or b on two str
str_or(a, b) == IF a # <<>> THEN a ELSE b

\* The configuration as chat and _llm_reply each read it
read_config(e) ==
  LET openai_api_key == strip(getenv(e, "OPENAI_API_KEY", <<>>))
      openrouter_api_key == strip(getenv(e, "OPENROUTER_API_KEY", <<>>))
  IN  [llm_api_key        |-> str_or(openai_api_key, openrouter_api_key),
       openrouter_api_key |-> openrouter_api_key,
       llm_model          |-> strip(getenv(e, "OPENAI_MODEL", DefaultModel)),
       llm_api_base       |-> strip(getenv(e, "LLM_API_BASE", <<>>)),
       openrouter_site_url |-> strip(getenv(e, "OPENROUTER_SITE_URL", <<>>)),
       openrouter_app_name |-> strip(getenv(e, "OPENROUTER_APP_NAME", <<"G", "l", "u", "e", "B", "o", "t">>))]

RECURSIVE topics_from(_, _)
topics_from(items, i) ==
  IF i > Len(items) THEN <<>>
  ELSE
    LET question == item_question(items[i])
        answer == item_answer(items[i])
    IN  IF question # <<>> /\ answer # <<>>
          THEN <<<<"-", " ">> \o question \o <<":", " ">> \o answer>> \o topics_from(items, i + 1)
          ELSE topics_from(items, i + 1)

\* knowledge[:30]
kb_slice(knowledge) ==
  SubSeq(knowledge, 1, IF Len(knowledge) < KbSliceLimit THEN Len(knowledge) ELSE KbSliceLimit)

\* Mutant: the records are filtered before the slice is taken
topic_list_filter_first(knowledge) ==
  LET all == topics_from(knowledge, 1)
  IN  SubSeq(all, 1, IF Len(all) < KbSliceLimit THEN Len(all) ELSE KbSliceLimit)

topic_list(knowledge) == topics_from(kb_slice(knowledge), 1)

kb_context(knowledge) ==
  IF topic_list(knowledge) # <<>>
    THEN join(<<"\n">>, topic_list(knowledge))
    ELSE KbPlaceholder

llm_prompt(message, knowledge) ==
  <<PromptHead, "Known KB:">> \o kb_context(knowledge) \o <<"User issue: ">> \o message

is_openrouter(cfg) ==
  contains(lower(cfg.llm_api_base), <<"o", "p", "e", "n", "r", "o", "u", "t", "e", "r">>) \/ cfg.openrouter_api_key # <<>>

SystemPrompt ==
  "You are GlueBot, a Kubernetes + OpenStack SRE assistant. Give concise troubleshooting steps and safe automation scripts."

\* What requests.post is given: the url, the headers (a header left out is
\* the empty text) and the json body
llm_call(cfg, message, knowledge) ==
  IF is_openrouter(cfg)
    THEN [shape   |-> "chat.completions",
          url     |-> str_or(cfg.llm_api_base, <<"h", "t", "t", "p", "s", ":", "/", "/", "o", "p", "e", "n", "r", "o", "u", "t", "e", "r", ".", "a", "i", "/", "a", "p", "i", "/", "v", "1", "/", "c", "h", "a", "t", "/", "c", "o", "m", "p", "l", "e", "t", "i", "o", "n", "s">>),
          bearer  |-> cfg.llm_api_key,
          referer |-> cfg.openrouter_site_url,
          title   |-> cfg.openrouter_app_name,
          model   |-> cfg.llm_model,
          system  |-> SystemPrompt,
          prompt  |-> llm_prompt(message, knowledge)]
    ELSE [shape   |-> "responses",
          url     |-> str_or(cfg.llm_api_base, <<"h", "t", "t", "p", "s", ":", "/", "/", "a", "p", "i", ".", "o", "p", "e", "n", "a", "i", ".", "c", "o", "m", "/", "v", "1", "/", "r", "e", "s", "p", "o", "n", "s", "e", "s">>),
          bearer  |-> cfg.llm_api_key,
          model   |-> cfg.llm_model,
          prompt  |-> llm_prompt(message, knowledge)]

\* JSON values of a response body: a string, null, an object (a record) or an
\* array (a sequence)
JStr(s) == [str |-> s]
JNull == [null |-> TRUE]
EmptyObj == [k \in {} |-> JNull]

Returned(v) == [raised |-> "", value |-> v]
Raised(exc) == [raised |-> exc, value |-> None]

\* data.get("choices", [{}])[0].get("message", {}).get("content", "").strip() or None
parse_chat_completion(data) ==
  LET choices == IF "choices" \in DOMAIN data THEN data.choices ELSE <<EmptyObj>>
  IN  IF choices = <<>> THEN Raised("IndexError")
      ELSE
        LET message == IF "message" \in DOMAIN choices[1]
                         THEN choices[1].message ELSE EmptyObj
            content == IF "content" \in DOMAIN message
                         THEN message.content ELSE JStr(<<>>)
        IN  IF content = JNull THEN Raised("AttributeError")
            ELSE IF strip(content.str) # <<>> THEN Returned(strip(content.str))
            ELSE Returned(None)

\* text = (data.get("output_text") or "").strip(); return text or None
parse_responses(data) ==
  LET output_text == IF "output_text" \in DOMAIN data THEN data.output_text ELSE JNull
      text == IF output_text = JNull THEN <<>> ELSE strip(output_text.str)
  IN  IF text # <<>> THEN Returned(text) ELSE Returned(None)

\* The try block of _llm_reply on one outcome of requests.post: an exception
\* of requests (all are RequestException) or a response [status, body]
llm_outcome(shape, outcome) ==
  IF outcome.kind = "exception" THEN Returned(None)
  ELSE IF outcome.status >= 400 THEN Returned(None)
  ELSE IF shape = "chat.completions" THEN parse_chat_completion(outcome.body)
  ELSE parse_responses(outcome.body)

(***************************************************************************)
(* The fallback responder.                                                 *)
(***************************************************************************)
\* Mutant: a record without an answer is scored as well
related_skips_no_question(question, answer) == question = <<>>

\* if not question: continue / if not answer: continue
related_skips(question, answer) == question = <<>> \/ answer = <<>>

RECURSIVE scored_from(_, _, _)
scored_from(msg_tokens, knowledge, i) ==
  IF i > Len(knowledge) THEN <<>>
  ELSE
    LET question == item_question(knowledge[i])
        answer == item_answer(knowledge[i])
        q_tokens == tokens(lower(question))
        rest == scored_from(msg_tokens, knowledge, i + 1)
    IN  IF related_skips(question, answer) THEN rest
        ELSE IF q_tokens = {} THEN rest
        ELSE IF Cardinality(msg_tokens \cap q_tokens) > 0
          THEN <<[num |-> Cardinality(msg_tokens \cap q_tokens),
                  den |-> Cardinality(q_tokens),
                  topic |-> question]>> \o rest
        ELSE rest

\* scored.sort(key=score, reverse=True): stable, so x goes behind every
\* element already placed whose score is not smaller
RECURSIVE insert_desc(_, _)
insert_desc(sorted, x) ==
  IF sorted = <<>> THEN <<x>>
  ELSE IF Head(sorted).num * x.den >= x.num * Head(sorted).den
    THEN <<Head(sorted)>> \o insert_desc(Tail(sorted), x)
  ELSE <<x>> \o sorted

RECURSIVE sort_desc(_, _)
sort_desc(scored, i) ==
  IF i = 0 THEN <<>> ELSE insert_desc(sort_desc(scored, i - 1), scored[i])

_related_topics(message, knowledge) ==
  LET scored == scored_from(tokens(lower(message)), knowledge, 1)
      sorted == sort_desc(scored, Len(scored))
      top == SubSeq(sorted, 1, IF Len(sorted) < RelatedLimit THEN Len(sorted) ELSE RelatedLimit)
  IN  [i \in 1..Len(top) |-> top[i].topic]

related_text(message, knowledge) ==
  IF _related_topics(message, knowledge) # <<>>
    THEN <<"Related topics you can ask: ">> \o join(<<",", " ">>, _related_topics(message, knowledge))
    ELSE <<>>

_fallback_reply(message, knowledge) ==
  LET text == lower(message)
  IN  IF contains(text, <<"l", "i", "v", "e", "n", "e", "s", "s">>) /\ contains(text, <<"5", "0", "0">>)
        THEN <<"Try this checklist for liveness probe 500 errors:",
               "1) Confirm the probe path/port matches your app endpoint.",
               "2) Check app logs around probe failures ('kubectl logs <pod> -c <container>').",
               "3) Increase 'initialDelaySeconds' and 'timeoutSeconds' if startup is slow.",
               "4) Verify dependencies (DB/cache/API) required by the health endpoint.",
               "5) Use 'kubectl describe pod <pod>' to confirm probe failure events.">>
             \o related_text(message, knowledge)
      ELSE IF contains(text, <<"r", "e", "a", "d", "i", "n", "e", "s", "s">>) \/ contains(text, <<"l", "i", "v", "e", "n", "e", "s", "s">>)
              \/ contains(text, <<"p", "r", "o", "b", "e">>)
        THEN <<"Probe issue detected. Verify probe path, port, and timing fields ('initialDelaySeconds', 'timeoutSeconds', 'periodSeconds', 'failureThreshold'), then inspect events with 'kubectl describe pod <pod>' and container logs.">>
             \o related_text(message, knowledge)
      ELSE IF contains(text, <<"o", "p", "e", "n", "s", "t", "a", "c", "k">>) \/ contains(text, <<"n", "o", "v", "a">>)
              \/ contains(text, <<"n", "e", "u", "t", "r", "o", "n">>) \/ contains(text, <<"c", "i", "n", "d", "e", "r">>)
        THEN <<"OpenStack issue detected. Start with: 'openstack token issue', 'openstack server list', 'openstack volume list', 'openstack network agent list', then check service logs and project quotas.">>
             \o related_text(message, knowledge)
      ELSE <<"I do not have an exact match yet, but start with: 'kubectl describe pod <pod>', 'kubectl logs <pod> -c <container> --previous', and check recent events in the namespace.">>
           \o related_text(message, knowledge)

(***************************************************************************)
(* The inputs: the messages clients send, the contents knowledge.json may  *)
(* start with, the environments load_dotenv may find, and what the         *)
(* outbound call may come back with.                                       *)
(***************************************************************************)
Messages ==
  {<<>>, <<" ", "H", "i">>, <<"D", "e", "l", "e", "t", "e", " ", "A", "v", "a", "i", "l", "a", "b", "l", "e", " ", "O", "p", "e", "n", "S", "t", "a", "c", "k", " ", "V", "o", "l", "u", "m", "e">>,
   <<"p", "o", "d", " ", "d", "o", "w", "n">>, <<" ", "P", "o", "d", " ", "D", "o", "w", "n", " ">>, <<"n", "o", "v", "a", " ", "a", "p", "i", " ", "e", "r", "r", "o", "r">>, <<"l", "i", "v", "e", "n", "e", "s", "s", " ", "5", "0", "0">>, <<"x", "y", "z">>}

R_unresolved == unresolved_record(<<"p", "o", "d", " ", "d", "o", "w", "n">>)
R_volume == [question |-> <<"o", "p", "e", "n", "s", "t", "a", "c", "k", " ", "v", "o", "l", "u", "m", "e">>, answer |-> <<"r", "u", "n", "b", "o", "o", "k", " ", "7">>]
R_hi == [q |-> <<"h", "i">>, a |-> <<"y", "o">>]
R_nova == [question |-> <<"E", "r", "r", "o", "r", ":", " ", "n", "o", "v", "a", " ", "a", "p", "i", " ", "t", "i", "m", "e", "o", "u", "t", " ", "a", "g", "a", "i", "n">>, answer |-> <<"r", "e", "s", "t", "a", "r", "t", " ", "n", "o", "v", "a">>,
           status |-> "resolved"]
R_crash == [question |-> <<"P", "o", "d", " ", "c", "r", "a", "s", "h", " ", "l", "o", "o", "p">>, answer |-> <<" ", "l", "o", "g", "s", " ">>]
R_pod == [q |-> <<"p", "o", "d">>, answer |-> <<"d", "e", "s", "c", "r", "i", "b", "e", " ", "p", "o", "d">>]
R_poddown == [question |-> <<"P", "o", "d", " ", "d", "o", "w", "n", "!">>, answer |-> <<"w", "a", "i", "t">>]
R_symbols == [question |-> <<"?", "?">>, answer |-> <<"n", "/", "a">>]
R_noanswer == [question |-> <<"x", "y", "z">>, a |-> <<" ">>]
JNumber == [scalar |-> "number"]

Stores ==
  {[kind |-> "malformed", data |-> <<>>],
   [kind |-> "dict", data |-> <<R_nova>>],
   [kind |-> "list", data |-> <<>>],
   [kind |-> "list", data |-> <<R_unresolved>>],
   [kind |-> "list", data |-> <<R_volume>>],
   [kind |-> "list", data |-> <<R_hi, R_nova>>],
   [kind |-> "list", data |-> <<R_unresolved, R_pod, R_poddown>>],
   [kind |-> "list", data |-> <<R_symbols, JNumber, R_noanswer, R_crash>>]}

Envs ==
  {[OPENAI_API_KEY |-> <<>>],
   [OPENAI_API_KEY |-> <<"s", "k", "-", "1">>],
   [OPENAI_API_KEY |-> <<" ">>, OPENROUTER_API_KEY |-> <<"o", "r", "-", "1">>, OPENAI_MODEL |-> <<"g", "p", "t", "-", "4", "o", " ">>],
   [OPENAI_API_KEY |-> <<"s", "k", "-", "1">>, LLM_API_BASE |-> <<"h", "t", "t", "p", "s", ":", "/", "/", "O", "p", "e", "n", "R", "o", "u", "t", "e", "r", ".", "a", "i", "/", "v", "1">>]}

Outcomes ==
  <<[kind |-> "exception", exc |-> "ConnectionError"],
    [kind |-> "exception", exc |-> "Timeout"],
    [kind |-> "response", status |-> 500, body |-> EmptyObj],
    [kind |-> "response", status |-> 200, body |-> EmptyObj],
    [kind |-> "response", status |-> 200,
     body |-> [choices |-> <<[message |-> [content |-> JStr(<<" ", "r", "e", "s", "t", "a", "r", "t", " ", "i", "t", "\n">>)]]>>]],
    [kind |-> "response", status |-> 200,
     body |-> [choices |-> <<[message |-> [content |-> JStr(<<" ">>)]]>>]],
    [kind |-> "response", status |-> 200,
     body |-> [choices |-> <<[message |-> [role |-> JStr(<<"a", "s", "s", "i", "s", "t", "a", "n", "t">>)]]>>]],
    [kind |-> "response", status |-> 200,
     body |-> [choices |-> <<[message |-> [content |-> JNull]]>>]],
    [kind |-> "response", status |-> 200, body |-> [choices |-> <<>>]],
    [kind |-> "response", status |-> 200,
     body |-> [output_text |-> JStr(<<"c", "h", "e", "c", "k", " ", "q", "u", "o", "t", "a">>)]],
    [kind |-> "response", status |-> 200, body |-> [output_text |-> JNull]]>>

(***************************************************************************)
(* The state.  file is knowledge.json, env the environment after           *)
(* load_dotenv, req[s] the chat request worker s is serving (its locals    *)
(* and its place in chat), workers the size of the pool that serves        *)
(* requests.  nreq counts the requests accepted; s0 remembers the content  *)
(* the file started with, and tracked the calls of _track_unknown_issue    *)
(* in order: the request's number and message, the list as the request     *)
(* loaded it (before) and the list a reload gives once the request is over *)
(* (after).                                                                *)
(* kb and kbctx are the input and the result of the grounding context      *)
(* taken alone.                                                            *)
(***************************************************************************)
Slots == {1, 2}

NoCall == [shape |-> "none"]

IdleReq ==
  [pc |-> "idle", n |-> 0, message |-> <<>>, llm_api_key |-> <<>>, llm_model |-> <<>>,
   loaded |-> <<>>, knowledge |-> <<>>, matched |-> None, appended |-> FALSE,
   called |-> FALSE, call |-> NoCall, llm |-> None, error |-> "",
   reply |-> None, source |-> None, overlap |-> FALSE]

Active(r) == r.pc \in {"configured", "save", "llm"}

ChatResponse(r, reply, source) ==
  [r EXCEPT !.pc = "done", !.reply = reply, !.source = source]

\* chat, lines 346-350: the request is accepted and the configuration read
ChatBegin(s, m) ==
  /\ s \in 1..workers
  /\ ~Active(req[s])
  /\ nreq < MaxRequests
  /\ nreq' = nreq + 1
  /\ LET cfg == read_config(env)
         busy == \E t \in Slots \ {s} : Active(req[t])
     IN  req' = [t \in Slots |->
                   IF t = s
                     THEN [IdleReq EXCEPT !.pc = "configured", !.n = nreq + 1,
                                          !.message = m,
                                          !.llm_api_key = cfg.llm_api_key,
                                          !.llm_model = cfg.llm_model,
                                          !.overlap = busy]
                   ELSE IF Active(req[t]) THEN [req[t] EXCEPT !.overlap = TRUE]
                   ELSE req[t]]
  /\ UNCHANGED <<file, env, workers, s0, tracked, kb, kbctx>>

\* chat, lines 352-367 up to the write of the file: the store is loaded, the
\* intent, knowledge and template stages run, and the tracker appends to the
\* list in memory
ChatLoad(s) ==
  /\ req[s].pc = "configured"
  /\ LET r == req[s]
         knowledge == _load_knowledge(file)
         smalltalk == _smalltalk_reply(r.message)
         matched == _find_reply(r.message, knowledge)
         scripted == _openstack_script_reply(r.message)
         l == [r EXCEPT !.loaded = knowledge, !.knowledge = knowledge]
     IN  IF truthy(smalltalk)
           THEN /\ req' = [req EXCEPT ![s] = ChatResponse(l, smalltalk, <<"intent">>)]
                /\ UNCHANGED tracked
         ELSE IF truthy(matched)
           THEN /\ req' = [req EXCEPT ![s] =
                             ChatResponse([l EXCEPT !.matched = matched],
                                          matched, <<"knowledge.json">>)]
                /\ UNCHANGED tracked
         ELSE IF truthy(scripted)
           THEN /\ req' = [req EXCEPT ![s] =
                             ChatResponse(l, scripted, <<"template:openstack_script">>)]
                /\ UNCHANGED tracked
         ELSE IF _is_incident_like(r.message)
           THEN /\ req' = [req EXCEPT ![s] =
                             [l EXCEPT !.knowledge = _track_unknown_issue(r.message, knowledge),
                                       !.appended = track_appends(r.message, knowledge),
                                       !.pc = IF track_appends(r.message, knowledge)
                                                THEN "save" ELSE "llm"]]
                /\ tracked' = Append(tracked,
                                      [n |-> r.n, message |-> r.message,
                                       before |-> knowledge, after |-> knowledge,
                                       finished |-> FALSE])
         ELSE /\ req' = [req EXCEPT ![s] = [l EXCEPT !.pc = "llm"]]
              /\ UNCHANGED tracked
  /\ UNCHANGED <<file, env, nreq, workers, s0, kb, kbctx>>

\* _track_unknown_issue, line 181: _save_knowledge overwrites the file
ChatSave(s) ==
  /\ req[s].pc = "save"
  /\ file' = _save_knowledge(req[s].knowledge)
  /\ req' = [req EXCEPT ![s].pc = "llm"]
  /\ UNCHANGED <<env, nreq, workers, s0, tracked, kb, kbctx>>

\* chat, lines 369-379 on what _llm_reply gave
ChatFinish(r, res) ==
  IF res.raised # ""
    THEN [r EXCEPT !.pc = "failed", !.error = res.raised]
  ELSE IF truthy(res.value)
    THEN ChatResponse([r EXCEPT !.llm = res.value], res.value, <<"llm:">> \o r.llm_model)
  ELSE IF r.llm_api_key = <<>>
    THEN ChatResponse(r, _fallback_reply(r.message, r.knowledge),
                      <<"fallback:no_llm_api_key">>)
  ELSE ChatResponse(r, _fallback_reply(r.message, r.knowledge),
                    <<"fallback:llm_unavailable">>)

\* chat, lines 369-379: _llm_reply reads the configuration again, makes the
\* outbound call when a credential is configured, and chat returns
ChatLlm(s) ==
  /\ req[s].pc = "llm"
  /\ LET r == req[s]
         cfg == read_config(env)
         call == llm_call(cfg, r.message, r.knowledge)
     IN  IF cfg.llm_api_key = <<>>
           THEN req' = [req EXCEPT ![s] = ChatFinish(r, Returned(None))]
           ELSE \E o \in 1..Len(Outcomes) :
                  req' = [req EXCEPT ![s] =
                            ChatFinish([r EXCEPT !.called = TRUE, !.call = call],
                                       llm_outcome(call.shape, Outcomes[o]))]
  /\ tracked' = [i \in 1..Len(tracked) |->
                   IF tracked[i].n = req[s].n
                     THEN [tracked[i] EXCEPT !.after = _load_knowledge(file),
                                             !.finished = TRUE]
                     ELSE tracked[i]]
  /\ UNCHANGED <<file, env, nreq, workers, s0, kb, kbctx>>

\* The operator edits .env: the next load_dotenv(override=True) sees it
EnvChange ==
  /\ env' \in Envs \ {env}
  /\ UNCHANGED <<file, req, nreq, workers, s0, tracked, kb, kbctx>>

Next ==
  \/ \E s \in Slots, m \in Messages : ChatBegin(s, m)
  \/ \E s \in Slots : ChatLoad(s)
  \/ \E s \in Slots : ChatSave(s)
  \/ \E s \in Slots : ChatLlm(s)
  \/ EnvChange

InitCommon ==
  /\ env \in Envs
  /\ req = [s \in Slots |-> IdleReq]
  /\ nreq = 0
  /\ s0 = file
  /\ tracked = <<>>
  /\ kb = <<>>
  /\ kbctx = <<>>

\* Requests one at a time
Init == file \in Stores /\ workers = 1 /\ InitCommon

Spec == Init /\ [][Next]_vars

\* Requests served by two workers at once, for the messages that reach the
\* incident tracker, under a configuration nobody edits
IncidentMessages == {m \in Messages : _is_incident_like(m) /\ ~truthy(_openstack_script_reply(m))}

NextPool ==
  \/ \E s \in Slots, m \in IncidentMessages : ChatBegin(s, m)
  \/ \E s \in Slots : ChatLoad(s)
  \/ \E s \in Slots : ChatSave(s)
  \/ \E s \in Slots : ChatLlm(s)

InitPool ==
  /\ file = [kind |-> "list", data |-> <<>>]
  /\ workers = 2
  /\ InitCommon
  /\ env \in {[OPENAI_API_KEY |-> <<>>], [OPENAI_API_KEY |-> <<"s", "k", "-", "1">>]}

SpecPool == InitPool /\ [][NextPool]_vars

(***************************************************************************)
(* The grounding context taken alone: a store grows record by record, and  *)
(* kbctx is what _llm_reply builds from it (topic_list and kb_context).    *)
(* Record i is complete, unresolved (no answer) or without a question.     *)
(***************************************************************************)
Numeral(i) == <<Digits[(i \div 10) + 1], Digits[(i % 10) + 1]>>

KbRecord(i, shape) ==
  IF shape = "complete"
    THEN [question |-> <<"q">> \o Numeral(i), answer |-> <<"a">> \o Numeral(i)]
  ELSE IF shape = "unresolved"
    THEN unresolved_record(<<"q">> \o Numeral(i))
  ELSE [q |-> <<" ">>, a |-> <<"a">> \o Numeral(i)]

Complete(item) == item_question(item) # <<>> /\ item_answer(item) # <<>>

Incomplete(knowledge) == {i \in 1..Len(knowledge) : ~Complete(knowledge[i])}

GroundingContext(knowledge) ==
  [topics |-> topic_list(knowledge), text |-> kb_context(knowledge)]

KbAppend(shape) ==
  /\ Len(kb) < MaxKb
  /\ shape = "complete" \/ Cardinality(Incomplete(kb)) < MaxIncomplete
  /\ kb' = Append(kb, KbRecord(Len(kb) + 1, shape))
  /\ kbctx' = GroundingContext(kb')
  /\ UNCHANGED <<file, env, req, nreq, workers, s0, tracked>>

NextCtx == \E shape \in {"complete", "unresolved", "noquestion"} : KbAppend(shape)

InitCtx ==
  /\ file = [kind |-> "list", data |-> <<>>]
  /\ env = [OPENAI_API_KEY |-> <<"s", "k", "-", "1">>]
  /\ req = [s \in Slots |-> IdleReq]
  /\ nreq = 0
  /\ workers = 1
  /\ s0 = file
  /\ tracked = <<>>
  /\ kb = <<>>
  /\ kbctx = GroundingContext(kb)

SpecCtx == InitCtx /\ [][NextCtx]_vars

(***************************************************************************)
(* What the claims speak of.                                               *)
(***************************************************************************)
norm(m) == lower(strip(m))

Finished(r) == r.pc \in {"done", "failed"}

Fallbacks == {<<"fallback:no_llm_api_key">>, <<"fallback:llm_unavailable">>}

\* The message is empty or one of the fixed greeting, thanks or help phrases
IntentMessage(m) == norm(m) = <<>> \/ norm(m) \in greetings \cup thanks \cup helps

\* The record's question contains or is contained in the message, or at
\* least 0.6 of the question's tokens are tokens of the message
Matches(m, item) ==
  LET q == norm(get2(item, "question", "q"))
  IN  \/ contains(norm(m), q)
      \/ contains(q, norm(m))
      \/ /\ tokens(q) # {}
         /\ 10 * Cardinality(tokens(norm(m)) \cap tokens(q)) >= 6 * Cardinality(tokens(q))

Matching(m, knowledge) ==
  {i \in 1..Len(knowledge) : Complete(knowledge[i]) /\ Matches(m, knowledge[i])}

First(idx) == CHOOSE i \in idx : \A j \in idx : i <= j

\* The message names openstack, volume, available and the verb
MentionsVolumes(m, verb) ==
  /\ contains(lower(m), <<"o", "p", "e", "n", "s", "t", "a", "c", "k">>)
  /\ contains(lower(m), <<"v", "o", "l", "u", "m", "e">>)
  /\ contains(lower(m), verb)
  /\ contains(lower(m), <<"a", "v", "a", "i", "l", "a", "b", "l", "e">>)

\* The source is the tag of the first stage that has a reply for the request
ByFirstStage(r) ==
  IF IntentMessage(r.message) THEN r.source = <<"intent">>
  ELSE IF Matching(r.message, r.loaded) # {} THEN r.source = <<"knowledge.json">>
  ELSE IF MentionsVolumes(r.message, <<"d", "e", "l", "e", "t", "e">>) \/ MentionsVolumes(r.message, <<"r", "e", "m", "o", "v", "e">>)
    THEN r.source = <<"template:openstack_script">>
  ELSE IF r.llm # None THEN r.source = <<"llm:">> \o r.llm_model /\ r.reply = r.llm
  ELSE r.source \in Fallbacks

\* Every request that returns is answered by the first stage that matches
ReturnedByFirstStage ==
  \A s \in Slots : req[s].pc = "done" => req[s].reply # None /\ ByFirstStage(req[s])

\* C1: every chat request returns one reply and one source, the source being
\* the tag of the first stage, in the order intent, knowledge.json, template,
\* llm, fallback, that has a reply for the message and the store
C1_EveryRequestAnsweredByFirstStage ==
  \A s \in Slots :
    Finished(req[s]) =>
      req[s].pc = "done" /\ req[s].reply # None /\ ByFirstStage(req[s])

\* C2, as stated: whatever the store holds, a message naming openstack,
\* volume, delete and available is answered by the template, with the script
\* header in the reply
C2_TemplateWhateverTheStore ==
  \A s \in Slots :
    (Finished(req[s]) /\ MentionsVolumes(req[s].message, <<"d", "e", "l", "e", "t", "e">>)) =>
      /\ req[s].source = <<"template:openstack_script">>
      /\ \E i \in 1..Len(req[s].reply) : req[s].reply[i] = ScriptHeader

\* C2, amended: such a message is answered by the template, with the script
\* header in the reply, unless a record of the store matches it in the
\* knowledge lookup; then the first such record's answer is returned with
\* source knowledge.json
C2_TemplateUnlessKnowledgeMatches ==
  \A s \in Slots :
    (Finished(req[s]) /\ MentionsVolumes(req[s].message, <<"d", "e", "l", "e", "t", "e">>)) =>
      IF Matching(req[s].message, req[s].loaded) = {}
        THEN /\ req[s].source = <<"template:openstack_script">>
             /\ \E i \in 1..Len(req[s].reply) : req[s].reply[i] = ScriptHeader
        ELSE /\ req[s].source = <<"knowledge.json">>
             /\ req[s].reply =
                  item_answer(req[s].loaded[First(Matching(req[s].message, req[s].loaded))])

C2_TemplateOverNonEmptyStore ==
  \E s \in Slots :
    /\ req[s].pc = "done"
    /\ MentionsVolumes(req[s].message, <<"d", "e", "l", "e", "t", "e">>)
    /\ req[s].loaded # <<>>
    /\ req[s].source = <<"template:openstack_script">>
    /\ \E i \in 1..Len(req[s].reply) : req[s].reply[i] = ScriptHeader

\* Two calls of the tracker by requests sent one right after the other, for
\* messages equal up to letter case and surrounding whitespace, both over
SentTwice ==
  {i \in 1..(Len(tracked) - 1) :
     /\ tracked[i + 1].n = tracked[i].n + 1
     /\ norm(tracked[i + 1].message) = norm(tracked[i].message)
     /\ tracked[i].finished /\ tracked[i + 1].finished}

\* C3, as stated: sent twice in sequence, an incident-like message no earlier
\* stage answers leaves exactly one more record in the persisted store, and
\* the second request leaves the store unchanged
C3_TwiceAppendsExactlyOne ==
  \A i \in SentTwice :
    /\ tracked[i + 1].after = Append(tracked[i].before,
                                     unresolved_record(strip(tracked[i].message)))
    /\ tracked[i + 1].after = tracked[i + 1].before

\* C3, amended: sent twice in sequence, such a message leaves exactly one
\* more record in the persisted store when no record of the store as first
\* loaded has that question (trimmed, case-insensitive) and none when one
\* has; the second request leaves the store unchanged
C3_TwiceAppendsOnceUnlessKnown ==
  \A i \in SentTwice :
    /\ tracked[i].after =
         IF \E j \in 1..Len(tracked[i].before) :
              norm(get2(tracked[i].before[j], "question", "q")) = norm(tracked[i].message)
           THEN tracked[i].before
           ELSE Append(tracked[i].before, unresolved_record(strip(tracked[i].message)))
    /\ tracked[i + 1].before = tracked[i].after
    /\ tracked[i + 1].after = tracked[i + 1].before

C3_SentTwiceInAnotherCase ==
  \E i \in SentTwice :
    /\ tracked[i + 1].message # tracked[i].message
    /\ Len(tracked[i + 1].after) = Len(tracked[i].before) + 1

\* C4: whatever the outbound call comes back with, _llm_reply raises nothing
\* and the request ends with a reply, the fallback's when there is no
\* completion
C4_LlmNeverFailsChat ==
  \A s \in Slots :
    /\ req[s].pc # "failed"
    /\ (req[s].pc = "done" /\ req[s].called /\ req[s].llm = None) =>
         /\ req[s].source \in Fallbacks
         /\ req[s].reply = _fallback_reply(req[s].message, req[s].knowledge)

\* The questions, trimmed, of the first occurrence of each tracked message
\* (up to letter case and surrounding whitespace) outside the set seen
RECURSIVE FirstOccurrences(_, _, _)
FirstOccurrences(entries, i, seen) ==
  IF i > Len(entries) THEN <<>>
  ELSE IF norm(entries[i].message) \in seen
    THEN FirstOccurrences(entries, i + 1, seen)
  ELSE <<unresolved_record(strip(entries[i].message))>>
       \o FirstOccurrences(entries, i + 1, seen \cup {norm(entries[i].message)})

Quiet == \A s \in Slots : ~Active(req[s])

ListOfRecords(f) == f.kind = "list" /\ \A i \in 1..Len(f.data) : isdict(f.data[i])

\* C5, as stated: after requests that do not overlap, the persisted store is
\* S0 followed by one unresolved record per distinct tracked message, in
\* order of first occurrence, and a reload yields that sequence
C5_StoreIsS0PlusEveryTrackedMessage ==
  (Quiet /\ ListOfRecords(s0)) =>
    _load_knowledge(file) = s0.data \o FirstOccurrences(tracked, 1, {})

\* C5, amended: ... one unresolved record per distinct tracked message that
\* is not already the question (trimmed, case-insensitive) of a record of S0
C5_StoreIsS0PlusEveryNewTrackedMessage ==
  (Quiet /\ ListOfRecords(s0)) =>
    /\ _load_knowledge(file) =
         s0.data \o FirstOccurrences(tracked, 1,
                      {norm(get2(s0.data[j], "question", "q")) : j \in 1..Len(s0.data)})
    /\ tracked # <<>> => file = [kind |-> "list", data |-> _load_knowledge(file)]

C5_TwoRecordsAppended ==
  /\ Quiet /\ ListOfRecords(s0) /\ s0.data # <<>>
  /\ Len(tracked) = 2
  /\ Len(_load_knowledge(file)) = Len(s0.data) + 2

\* C6: a request that ends in the fallback stage is tagged no_llm_api_key
\* exactly when _llm_reply made no outbound call, and llm_unavailable exactly
\* when it made one that gave no result
C6_FallbackTagTellsWhetherCalled ==
  \A s \in Slots :
    (req[s].pc = "done" /\ req[s].source \in Fallbacks) =>
      /\ req[s].source = <<"fallback:no_llm_api_key">> <=> ~req[s].called
      /\ req[s].source = <<"fallback:llm_unavailable">> <=> req[s].called

\* C7: the knowledge lookup returns the answer of the first record, in store
\* order, with a question and an answer, that matches the message, and no
\* match when there is none; a record with an empty answer is never the
\* reply of source knowledge.json
C7_LookupReturnsFirstMatch ==
  \A s \in Slots :
    (req[s].pc \notin {"idle", "configured"} /\ ~IntentMessage(req[s].message)) =>
      /\ IF Matching(req[s].message, req[s].loaded) = {}
           THEN req[s].matched = None /\ req[s].source # <<"knowledge.json">>
           ELSE /\ req[s].matched =
                     item_answer(req[s].loaded[First(Matching(req[s].message, req[s].loaded))])
                /\ req[s].source = <<"knowledge.json">>
                /\ req[s].reply = req[s].matched
      /\ req[s].source = <<"knowledge.json">> => req[s].reply # <<>>

C7_UnresolvedRecordPassedOver ==
  \E s \in Slots :
    /\ req[s].pc = "done"
    /\ req[s].source = <<"knowledge.json">>
    /\ \E i \in 1..Len(req[s].loaded) :
         /\ i < First(Matching(req[s].message, req[s].loaded))
         /\ item_answer(req[s].loaded[i]) = <<>>
         /\ Matches(req[s].message, req[s].loaded[i])

\* C8: two requests for distinct incident-like messages the store does not
\* know, both over: when they overlapped with no request, the store holds
\* the unresolved records of both (the witness is the lost update)
BothTracked(s, t) ==
  /\ Finished(req[s]) /\ Finished(req[t])
  /\ req[s].appended /\ req[t].appended
  /\ norm(req[s].message) # norm(req[t].message)

Holds(f, m) ==
  \E i \in 1..Len(f.data) : f.data[i] = unresolved_record(strip(m))

C8_BothRecordsWhenNotOverlapping ==
  \A s, t \in Slots :
    (BothTracked(s, t) /\ ~req[s].overlap /\ ~req[t].overlap) =>
      Holds(file, req[s].message) /\ Holds(file, req[t].message)

C8_LostUpdate ==
  \E s, t \in Slots :
    /\ BothTracked(s, t)
    /\ req[s].overlap /\ req[t].overlap
    /\ Holds(file, req[s].message)
    /\ ~Holds(file, req[t].message)

C8_BothRecordsInSequence ==
  \E s, t \in Slots :
    /\ BothTracked(s, t)
    /\ ~req[s].overlap /\ ~req[t].overlap
    /\ Holds(file, req[s].message) /\ Holds(file, req[t].message)

\* C9: a request in which the tracker appended a record returns the reply
\* and source that the LLM and fallback stages give on the store as loaded:
\* the prompt sent and the fallback reply are those of the loaded list
C9_TrackerLeavesReplyAlone ==
  \A s \in Slots :
    (req[s].pc = "done" /\ req[s].appended) =>
      /\ req[s].knowledge # req[s].loaded
      /\ req[s].called => req[s].call.prompt = llm_prompt(req[s].message, req[s].loaded)
      /\ IF req[s].llm # None
           THEN req[s].reply = req[s].llm /\ req[s].source = <<"llm:">> \o req[s].llm_model
           ELSE /\ req[s].reply = _fallback_reply(req[s].message, req[s].loaded)
                /\ req[s].source \in Fallbacks

C9_FallbackWithRelatedTopics ==
  \E s \in Slots :
    /\ req[s].pc = "done" /\ req[s].appended /\ req[s].called
    /\ req[s].source \in Fallbacks
    /\ _related_topics(req[s].message, req[s].loaded) # <<>>

\* The lines of the complete records among the records at the positions idx
RECURSIVE LinesOf(_, _, _)
LinesOf(knowledge, i, idx) ==
  IF i > Len(knowledge) THEN <<>>
  ELSE IF i \in idx
    THEN <<<<"-", " ">> \o item_question(knowledge[i]) \o <<":", " ">> \o item_answer(knowledge[i])>>
         \o LinesOf(knowledge, i + 1, idx)
  ELSE LinesOf(knowledge, i + 1, idx)

CompleteAt(knowledge) == {i \in 1..Len(knowledge) : Complete(knowledge[i])}

\* C10, as stated: the context holds the first 30 records of the store that
\* have a question and an answer, in store order, and the placeholder only
\* when the store has no such record
C10_FirstThirtyCompleteRecords ==
  /\ kbctx.topics =
       LinesOf(kb, 1, {i \in CompleteAt(kb) :
                         Cardinality({j \in CompleteAt(kb) : j <= i}) <= 30})
  /\ kbctx.text = KbPlaceholder <=> CompleteAt(kb) = {}

\* C10, amended: the context holds those of the first 30 records of the
\* store that have a question and an answer, in store order (fewer than 30
\* whenever one of the first 30 records lacks either), and the placeholder
\* only when none of the first 30 has both
C10_CompleteRecordsOfFirstThirty ==
  /\ kbctx.topics = LinesOf(kb, 1, {i \in CompleteAt(kb) : i <= 30})
  /\ kbctx.text = KbPlaceholder <=> {i \in CompleteAt(kb) : i <= 30} = {}
  /\ kbctx.topics # <<>> => kbctx.text = join(<<"\n">>, kbctx.topics)

C10_ThirtyCompleteButFewerLines ==
  /\ Cardinality(CompleteAt(kb)) >= 30
  /\ \E i \in 1..30 : ~Complete(kb[i])
  /\ Len(kbctx.topics) = 29
=============================================================================
